---- MODULE Spec2Model ----
(***************************************************************************)
(* Model of mail_parser_rust (src/mail_parser_rust/src/lib.rs): the        *)
(* filename sanitizer, the encoding detector, the decoder, the parallel    *)
(* "From " line counter, the metadata batch and the header parser.         *)
(*                                                                         *)
(* Text is a sequence of Unicode scalar values (integers); a byte buffer   *)
(* is a sequence of integers 0..255.  Every call returns a record          *)
(* [kind, val]: kind "ok" with the returned value, kind "IoError" for an   *)
(* error returned, or kind "panic" when the Rust code aborts the call.     *)
(***************************************************************************)
EXTENDS Integers, Sequences, FiniteSets, TLC

VARIABLES
    sanPc,        \* sanitize_filename_fast: "idle", "call", "done", "again"
    filename,     \* its argument
    sanitized,    \* its result
    resanitized,  \* the result of calling it again on its own output
    detPc,        \* detect_encoding_fast: "idle", "call", "done"
    detData,      \* its argument
    detected,     \* its result, with the return statement that produced it
    decPc,        \* decode_fast: "idle", "call", "done"
    decData,      \* its first argument
    decHint,      \* its second argument: NoHint or a label
    decoded,      \* its result
    batPc,        \* process_metadata_batch: "idle", "call", "done"
    email_texts,  \* its argument
    results,      \* its result
    cntPc,        \* count_messages_fast: "idle", "call", "scan", "done"
    fileState,    \* the file at path: "ok", "unopenable", "unmappable"
    mmap,         \* the bytes of the file
    lineIter,     \* text.lines(): the lines the shared iterator yields
    cursor,       \* how many of them the workers have taken
    wpc,          \* per worker: "ready", "holding", "finished"
    held,         \* per worker: the line it took and has not yet filtered
    tally,        \* per worker: the lines it has counted
    count,        \* the result
    hdrPc,        \* parse_headers_fast: "idle", "call", "loop", "done"
    hdrText,      \* its argument
    hdrLines,     \* text.lines(): the lines the for loop iterates over
    hdrPos,       \* how many of them the loop has taken
    hdrResult,    \* the local vector result
    headers       \* the value returned

sanVars == <<sanPc, filename, sanitized, resanitized>>
detVars == <<detPc, detData, detected>>
decVars == <<decPc, decData, decHint, decoded>>
batVars == <<batPc, email_texts, results>>
cntVars == <<cntPc, fileState, mmap, lineIter, cursor, wpc, held, tally, count>>
hdrVars == <<hdrPc, hdrText, hdrLines, hdrPos, hdrResult, headers>>

vars == <<sanPc, filename, sanitized, resanitized, detPc, detData, detected,
          decPc, decData, decHint, decoded, batPc, email_texts, results,
          cntPc, fileState, mmap, lineIter, cursor, wpc, held, tally, count,
          hdrPc, hdrText, hdrLines, hdrPos, hdrResult, headers>>

None == [kind |-> "none", val |-> <<>>]
Ok(v) == [kind |-> "ok", val |-> v]
Panic == [kind |-> "panic", val |-> <<>>]

SetMax(S) == CHOOSE x \in S : \A y \in S : x >= y

\* All sequences over S of length 0..n.
SeqsUpTo(S, n) == UNION {[1..k -> S] : k \in 0..n}

\* n copies of c.
Repeat(c, n) == [i \in 1..n |-> c]

(***************************************************************************)
(* Character classes and scans                                             *)
(***************************************************************************)

\* char::is_whitespace: the Unicode White_Space property.
is_whitespace(c) ==
    \/ c \in 9..13
    \/ c \in {32, 133, 160, 5760, 8232, 8233, 8239, 8287, 12288}
    \/ c \in 8192..8202

IsLetter(c) == c \in 65..90 \/ c \in 97..122
IsDigit(c) == c \in 48..57

\* [a-zA-Z0-9._%+-]
IsLocalChar(c) == IsLetter(c) \/ IsDigit(c) \/ c \in {46, 95, 37, 43, 45}

\* [a-zA-Z0-9.-]
IsDomainChar(c) == IsLetter(c) \/ IsDigit(c) \/ c \in {46, 45}

\* [^\s<>"{}|\\^`\[\]]
IsUrlChar(c) == ~is_whitespace(c) /\ c \notin {60, 62, 34, 123, 125, 124, 92, 94, 96, 91, 93}

\* [A-Za-z0-9-]
IsHeaderNameChar(c) == IsLetter(c) \/ IsDigit(c) \/ c = 45

\* The character classes by name.
InClass(cls, c) ==
    CASE cls = "whitespace"  -> is_whitespace(c)
      [] cls = "dot"         -> c = 46
      [] cls = "not_newline" -> c # 10
      [] cls = "letter"      -> IsLetter(c)
      [] cls = "local"       -> IsLocalChar(c)
      [] cls = "domain"      -> IsDomainChar(c)
      [] cls = "url"         -> IsUrlChar(c)
      [] cls = "header_name" -> IsHeaderNameChar(c)

\* The length of the longest run of characters of class cls that starts at
\* position i of t (a greedy repetition).
RECURSIVE RunLen(_, _, _)
RunLen(t, i, cls) ==
    IF i > Len(t) \/ ~InClass(cls, t[i]) THEN 0 ELSE 1 + RunLen(t, i + 1, cls)

\* The length of the longest run of characters of class cls that ends at
\* position j of t and starts at lo or later.
RECURSIVE RunLenBack(_, _, _, _)
RunLenBack(t, j, lo, cls) ==
    IF j < lo \/ ~InClass(cls, t[j]) THEN 0 ELSE 1 + RunLenBack(t, j - 1, lo, cls)

(***************************************************************************)
(* Filename sanitizer                                                      *)
(***************************************************************************)

\* Length limit of a file name, in bytes.
MaxNameBytes == 255

\* Number of bytes of the UTF-8 encoding of a scalar value (char::len_utf8).
len_utf8(c) == IF c < 128 THEN 1 ELSE IF c < 2048 THEN 2 ELSE IF c < 65536 THEN 3 ELSE 4

\* The bytes taken by the characters s[lo..hi] (halving keeps the evaluation
\* shallow on long names).
RECURSIVE ByteSum(_, _, _)
ByteSum(s, lo, hi) ==
    IF lo > hi THEN 0
    ELSE IF lo = hi THEN len_utf8(s[lo])
    ELSE LET mid == (lo + hi) \div 2
         IN ByteSum(s, lo, mid) + ByteSum(s, mid + 1, hi)

\* str::len: the byte length of a text.
byte_len(s) == ByteSum(s, 1, Len(s))

\* The class [<>:"/\\|?*\x00-\x1f].
INVALID_CHARS(c) == c \in ({60, 62, 58, 34, 47, 92, 124, 63, 42} \cup (0..31))

\* Regex::replace_all(filename, "_"): every match of the one-character class
\* becomes one '_' (95).
replace_invalid(s) == [i \in 1..Len(s) |-> IF INVALID_CHARS(s[i]) THEN 95 ELSE s[i]]

\* str::trim_matches(pat): the slice left when the leading and the trailing
\* characters matching pat are dropped.
trim_matches(s, cls) ==
    LET lead  == RunLen(s, 1, cls)
        trail == RunLenBack(s, Len(s), lead + 1, cls)
    IN SubSeq(s, lead + 1, Len(s) - trail)

\* str::trim
trim(s) == trim_matches(s, "whitespace")

\* str::trim_matches('.')
trim_dots(s) == trim_matches(s, "dot")

\* The largest k in lo..hi such that the first k characters of s take at most
\* n bytes (the first lo characters do).
RECURSIVE FitSearch(_, _, _, _)
FitSearch(s, lo, hi, n) ==
    IF lo >= hi THEN lo
    ELSE LET mid == (lo + hi + 1) \div 2
         IN IF ByteSum(s, 1, mid) <= n THEN FitSearch(s, mid, hi, n)
            ELSE FitSearch(s, lo, mid - 1, n)

\* The number of whole leading characters of s within its first n bytes.
chars_within(s, n) == FitSearch(s, 0, Len(s), n)

\* String::truncate(n): panics unless n lies on a char boundary.
truncate_at(s, n, k) == IF ByteSum(s, 1, k) = n THEN Ok(SubSeq(s, 1, k)) ELSE Panic
truncate(s, n) == IF byte_len(s) <= n THEN Ok(s) ELSE truncate_at(s, n, chars_within(s, n))

\* Line 350: trim whitespace, then dots.
trim_ws_then_dots(s) == trim_dots(trim(s))

\* Lines 353-355: a name longer than the limit is truncated to it.
limit_length(t) == IF byte_len(t) > MaxNameBytes THEN truncate(t, MaxNameBytes) ELSE Ok(t)

sanitize_NoLimit(name) == Ok(trim_ws_then_dots(replace_invalid(name)))
sanitize_filename_fast(name) == limit_length(trim_ws_then_dots(replace_invalid(name)))

\* ---- inputs: a short head, a long run of one character, a short tail ----
MaxEdge == 2
EdgeChars == {32, 46, 60}               \* ' '  '.'  '<'
\* nothing; 253 'a' (1 byte each); 128 e-acute (2 bytes each, 256 bytes)
Fills == {<<>>, Repeat(97, MaxNameBytes - 2), Repeat(233, (MaxNameBytes + 1) \div 2)}
Filenames == {h \o f \o t : h \in SeqsUpTo(EdgeChars, MaxEdge), f \in Fills,
                            t \in SeqsUpTo(EdgeChars, MaxEdge)}

Sanitize ==
    /\ sanPc = "call"
    /\ sanitized' = sanitize_filename_fast(filename)
    /\ sanPc' = "done"
    /\ UNCHANGED <<filename, resanitized, detVars, decVars, batVars, cntVars, hdrVars>>

\* The caller passes the returned name to the function again.
SanitizeAgain ==
    /\ sanPc = "done"
    /\ sanitized.kind = "ok"
    /\ resanitized' = sanitize_filename_fast(sanitized.val)
    /\ sanPc' = "again"
    /\ UNCHANGED <<filename, sanitized, detVars, decVars, batVars, cntVars, hdrVars>>

SanNext == Sanitize \/ SanitizeAgain

(***************************************************************************)
(* UTF-8, Windows-1252 and UTF-16 as the standard library and encoding_rs  *)
(* implement them                                                          *)
(***************************************************************************)

\* The length of the UTF-8 sequence a lead byte announces; 0 for a byte that
\* cannot start one (0x80..0xC1, 0xF5..0xFF).
utf8_width(b0) ==
    IF b0 < 128 THEN 1
    ELSE IF b0 \in 194..223 THEN 2
    ELSE IF b0 \in 224..239 THEN 3
    ELSE IF b0 \in 240..244 THEN 4
    ELSE 0

\* The values the second byte may take after lead byte b0 (this is where
\* overlong forms, surrogates and values above U+10FFFF are excluded).
second_byte_range(b0) ==
    IF b0 = 224 THEN 160..191
    ELSE IF b0 = 237 THEN 128..159
    ELSE IF b0 = 240 THEN 144..191
    ELSE IF b0 = 244 THEN 128..143
    ELSE 128..191

\* How many bytes from position i on form the beginning of a well-formed
\* sequence: the lead byte, then as many of its trail bytes as are present and
\* in range.
RECURSIVE TrailRun(_, _, _, _)
TrailRun(b, i, k, need) ==
    IF k >= need \/ i + k > Len(b) THEN k
    ELSE IF b[i + k] \in (IF k = 1 THEN second_byte_range(b[i]) ELSE 128..191)
         THEN TrailRun(b, i, k + 1, need)
         ELSE k
valid_up_to(b, i) == IF utf8_width(b[i]) = 0 THEN 0 ELSE TrailRun(b, i, 1, utf8_width(b[i]))

\* The scalar value of the complete sequence of n bytes at position i.
scalar_at(b, i, n) ==
    IF n = 1 THEN b[i]
    ELSE IF n = 2 THEN (b[i] - 192) * 64 + (b[i + 1] - 128)
    ELSE IF n = 3 THEN (b[i] - 224) * 4096 + (b[i + 1] - 128) * 64 + (b[i + 2] - 128)
    ELSE (b[i] - 240) * 262144 + (b[i + 1] - 128) * 4096 + (b[i + 2] - 128) * 64
         + (b[i + 3] - 128)

\* U+FFFD REPLACEMENT CHARACTER
REPLACEMENT == 65533

\* Decoding UTF-8 with replacement: every maximal ill-formed piece becomes one
\* U+FFFD.  [text, had_errors].
RECURSIVE Utf8From(_, _)
Utf8From(b, i) ==
    IF i > Len(b) THEN [text |-> <<>>, had_errors |-> FALSE]
    ELSE LET need == utf8_width(b[i])
             got  == valid_up_to(b, i)
         IN IF need > 0 /\ got = need
            THEN LET rest == Utf8From(b, i + need)
                 IN [text |-> <<scalar_at(b, i, need)>> \o rest.text,
                     had_errors |-> rest.had_errors]
            ELSE LET skip == IF got = 0 THEN 1 ELSE got
                     rest == Utf8From(b, i + skip)
                 IN [text |-> <<REPLACEMENT>> \o rest.text, had_errors |-> TRUE]
utf8_decode(b) == Utf8From(b, 1)

\* std::str::from_utf8(data).is_ok()
from_utf8_is_ok(b) == ~utf8_decode(b).had_errors

\* String::from_utf8_lossy(data)
from_utf8_lossy(b) == utf8_decode(b).text

\* The UTF-8 bytes of a text (str::as_bytes).
utf8_bytes_of(c) ==
    IF c < 128 THEN <<c>>
    ELSE IF c < 2048 THEN <<192 + (c \div 64), 128 + (c % 64)>>
    ELSE IF c < 65536
    THEN <<224 + (c \div 4096), 128 + ((c \div 64) % 64), 128 + (c % 64)>>
    ELSE <<240 + (c \div 262144), 128 + ((c \div 4096) % 64), 128 + ((c \div 64) % 64),
           128 + (c % 64)>>
RECURSIVE as_bytes(_)
as_bytes(t) == IF t = <<>> THEN <<>> ELSE utf8_bytes_of(Head(t)) \o as_bytes(Tail(t))

\* The windows-1252 index for bytes 0x80..0x9F.
W1252_HIGH ==
    <<8364, 129, 8218, 402, 8222, 8230, 8224, 8225, 710, 8240, 352, 8249, 338, 141, 381, 143,
      144, 8216, 8217, 8220, 8221, 8226, 8211, 8212, 732, 8482, 353, 8250, 339, 157, 382, 376>>

\* The windows-1252 decoder: every byte maps to a character, so it never
\* reports an error.
w1252_decode(b) ==
    [text |-> [i \in 1..Len(b) |-> IF b[i] \in 128..159 THEN W1252_HIGH[b[i] - 127] ELSE b[i]],
     had_errors |-> FALSE]

\* The 16-bit code units of a byte buffer, and whether a byte is left over.
unit_at(b, j, le) == IF le THEN b[2 * j - 1] + 256 * b[2 * j] ELSE 256 * b[2 * j - 1] + b[2 * j]
code_units(b, le) == [j \in 1..(Len(b) \div 2) |-> unit_at(b, j, le)]

\* Decoding UTF-16 code units with replacement: a surrogate pair is one scalar
\* value, an unpaired surrogate becomes U+FFFD.
RECURSIVE Utf16From(_, _)
Utf16From(u, j) ==
    IF j > Len(u) THEN [text |-> <<>>, had_errors |-> FALSE]
    ELSE IF u[j] \in 55296..56319 /\ j < Len(u) /\ u[j + 1] \in 56320..57343
    THEN LET rest == Utf16From(u, j + 2)
         IN [text |-> <<65536 + (u[j] - 55296) * 1024 + (u[j + 1] - 56320)>> \o rest.text,
             had_errors |-> rest.had_errors]
    ELSE IF u[j] \in 55296..57343
    THEN LET rest == Utf16From(u, j + 1)
         IN [text |-> <<REPLACEMENT>> \o rest.text, had_errors |-> TRUE]
    ELSE LET rest == Utf16From(u, j + 1)
         IN [text |-> <<u[j]>> \o rest.text, had_errors |-> rest.had_errors]

\* The UTF-16 decoders: a trailing odd byte is an error too.
utf16_decode(b, le) ==
    LET d == Utf16From(code_units(b, le), 1)
    IN IF (Len(b) % 2) = 1 THEN [text |-> d.text \o <<REPLACEMENT>>, had_errors |-> TRUE]
       ELSE d

\* Encoding::decode_without_bom_handling
decode_without_bom_handling(enc, b) ==
    IF enc = "UTF_8" THEN utf8_decode(b)
    ELSE IF enc = "WINDOWS_1252" THEN w1252_decode(b)
    ELSE IF enc = "UTF_16LE" THEN utf16_decode(b, TRUE)
    ELSE utf16_decode(b, FALSE)

\* Whether buffer b starts with the bytes p.
starts_with(b, p) == Len(b) >= Len(p) /\ SubSeq(b, 1, Len(p)) = p

\* Encoding::for_bom: the encoding a leading byte-order mark names, with the
\* mark's length; length 0 when there is no mark.
for_bom(b) ==
    IF starts_with(b, <<239, 187, 191>>) THEN [enc |-> "UTF_8", len |-> 3]
    ELSE IF starts_with(b, <<255, 254>>) THEN [enc |-> "UTF_16LE", len |-> 2]
    ELSE IF starts_with(b, <<254, 255>>) THEN [enc |-> "UTF_16BE", len |-> 2]
    ELSE [enc |-> "none", len |-> 0]

\* Encoding::decode: BOM sniffing first; a mark overrides the encoding the
\* method is called on and is not part of the output.
Encoding_decode(enc, b) ==
    LET bom == for_bom(b)
    IN IF bom.len > 0
       THEN decode_without_bom_handling(bom.enc, SubSeq(b, bom.len + 1, Len(b)))
       ELSE decode_without_bom_handling(enc, b)

\* Encoding::for_label on the labels the model passes: "none" for a label the
\* Encoding Standard does not list.
for_label(label) ==
    IF label \in {"utf-8", "utf8"} THEN "UTF_8"
    ELSE IF label \in {"windows-1252", "latin1", "ascii"} THEN "WINDOWS_1252"
    ELSE IF label \in {"utf-16le", "utf-16"} THEN "UTF_16LE"
    ELSE IF label = "utf-16be" THEN "UTF_16BE"
    ELSE "none"

(***************************************************************************)
(* Encoding detector                                                       *)
(***************************************************************************)

\* detect_encoding_fast; guess is the name chardetng's EncodingDetector
\* reports for the buffer.  The result carries the return statement taken.
detect_Utf8First(data, guess) ==
    IF data = <<>> THEN [name |-> "UTF-8", tier |-> "empty"]
    ELSE IF from_utf8_is_ok(data) THEN [name |-> "UTF-8", tier |-> "utf8"]
    ELSE IF \A i \in 1..Len(data) : data[i] < 128 THEN [name |-> "ASCII", tier |-> "ascii"]
    ELSE [name |-> guess, tier |-> "detector"]
detect_NoEmptyCheck(data, guess) ==
    IF \A i \in 1..Len(data) : data[i] < 128 THEN [name |-> "ASCII", tier |-> "ascii"]
    ELSE IF from_utf8_is_ok(data) THEN [name |-> "UTF-8", tier |-> "utf8"]
    ELSE [name |-> guess, tier |-> "detector"]
detect_encoding_fast(data, guess) ==
    IF data = <<>> THEN [name |-> "UTF-8", tier |-> "empty"]
    ELSE IF \A i \in 1..Len(data) : data[i] < 128 THEN [name |-> "ASCII", tier |-> "ascii"]
    ELSE IF from_utf8_is_ok(data) THEN [name |-> "UTF-8", tier |-> "utf8"]
    ELSE [name |-> guess, tier |-> "detector"]

\* Names the statistical detector may report (Encoding::name of its guess).
DetectorNames == {"windows-1252", "Shift_JIS", "GBK"}

\* ---- inputs ----
MaxDetect == 3
\* 'A', DEL, a lone trail byte, the two bytes of e-acute, the three of the
\* euro sign, a byte that is never valid
DetectBytes == {65, 127, 128, 195, 169, 226, 130, 172, 255}

Detect ==
    /\ detPc = "call"
    /\ \E guess \in DetectorNames : detected' = Ok(detect_encoding_fast(detData, guess))
    /\ detPc' = "done"
    /\ UNCHANGED <<detData, sanVars, decVars, batVars, cntVars, hdrVars>>

DetNext == Detect

(***************************************************************************)
(* Decoder                                                                 *)
(***************************************************************************)

NoHint == "<None>"

\* Lines 137-143: decode with the chosen encoding; on errors, the lossy UTF-8
\* decode of the same bytes.
decode_or_lossy(enc, data) ==
    LET d == Encoding_decode(enc, data)
    IN IF d.had_errors THEN Ok(from_utf8_lossy(data)) ELSE Ok(d.text)

decode_KeepHintedLossy(data, hint) ==
    IF data = <<>> THEN Ok(<<>>)
    ELSE IF hint # NoHint
    THEN Ok(Encoding_decode(IF for_label(hint) = "none" THEN "UTF_8" ELSE for_label(hint),
                            data).text)
    ELSE IF from_utf8_is_ok(data) THEN Ok(utf8_decode(data).text)
    ELSE IF ~Encoding_decode("WINDOWS_1252", data).had_errors
    THEN Ok(Encoding_decode("WINDOWS_1252", data).text)
    ELSE decode_or_lossy("UTF_8", data)
decode_Windows1252First(data, hint) ==
    IF data = <<>> THEN Ok(<<>>)
    ELSE IF hint # NoHint
    THEN decode_or_lossy(IF for_label(hint) = "none" THEN "UTF_8" ELSE for_label(hint), data)
    ELSE IF ~Encoding_decode("WINDOWS_1252", data).had_errors
    THEN Ok(Encoding_decode("WINDOWS_1252", data).text)
    ELSE IF from_utf8_is_ok(data) THEN Ok(utf8_decode(data).text)
    ELSE decode_or_lossy("UTF_8", data)
decode_fast(data, hint) ==
    IF data = <<>> THEN Ok(<<>>)
    ELSE IF hint # NoHint
    THEN decode_or_lossy(IF for_label(hint) = "none" THEN "UTF_8" ELSE for_label(hint), data)
    ELSE IF from_utf8_is_ok(data) THEN Ok(utf8_decode(data).text)
    ELSE IF ~Encoding_decode("WINDOWS_1252", data).had_errors
    THEN Ok(Encoding_decode("WINDOWS_1252", data).text)
    ELSE decode_or_lossy("UTF_8", data)

\* ---- inputs: an optional byte-order mark, then a short body ----
MaxBody == 4
Marks == {<<>>, <<239, 187, 191>>, <<255, 254>>, <<254, 255>>}
\* NUL, 'A', a lone trail byte (the euro sign in windows-1252), the two bytes
\* of e-acute, a high and a low surrogate half
BodyBytes == {0, 65, 128, 195, 169, 216, 220}
Hints == {NoHint, "utf-8", "latin1", "utf-16le", "klingon"}

Decode ==
    /\ decPc = "call"
    /\ decoded' = decode_fast(decData, decHint)
    /\ decPc' = "done"
    /\ UNCHANGED <<decData, decHint, sanVars, detVars, batVars, cntVars, hdrVars>>

DecNext == Decode

(***************************************************************************)
(* Extractor and batch                                                     *)
(***************************************************************************)

\* EMAIL_PATTERN tried at position i: the position of the last character of
\* the match the regex engine prefers, 0 when there is none.
\* \.[a-zA-Z]{2,} with the '.' at position dot: all the letters that follow.
EmailTld(t, dot) == dot + RunLen(t, dot + 1, "letter")

\* [a-zA-Z0-9.-]+ from position p, dom characters at most: the repetition is
\* greedy, so it gives back characters down to the last '.' that two letters
\* follow.
EmailDots(t, p, dom) ==
    {d \in 1..(dom - 1) : t[p + d] = 46 /\ RunLen(t, p + d + 1, "letter") >= 2}
EmailLastDot(t, p, dots) == IF dots = {} THEN 0 ELSE EmailTld(t, p + SetMax(dots))
EmailDomain(t, p) == EmailLastDot(t, p, EmailDots(t, p, RunLen(t, p, "domain")))

\* [a-zA-Z0-9._%+-]+@ : the local part, loc characters, must run up to an '@'.
EmailLocal(t, i, loc) ==
    IF loc = 0 \/ i + loc > Len(t) \/ t[i + loc] # 64 THEN 0
    ELSE EmailDomain(t, i + loc + 1)
EmailEnd(t, i) == EmailLocal(t, i, RunLen(t, i, "local"))

\* Whether the literal p stands at position i of t.
literal_at(t, i, p) == i + Len(p) - 1 <= Len(t) /\ \A k \in 1..Len(p) : t[i + k - 1] = p[k]

\* URL_PATTERN tried at position i: "http", an optional 's', "://", then the
\* longest non-empty run of permitted characters.
UrlRest(t, q, run) == IF run >= 1 THEN q + 2 + run ELSE 0
UrlScheme(t, q) == IF literal_at(t, q, <<58, 47, 47>>) THEN UrlRest(t, q, RunLen(t, q + 3, "url")) ELSE 0
UrlEnd(t, i) ==
    IF ~literal_at(t, i, <<104, 116, 116, 112>>) THEN 0
    ELSE UrlScheme(t, IF literal_at(t, i + 4, <<115>>) THEN i + 5 ELSE i + 4)

MatchEnd(pattern, t, i) == IF pattern = "EMAIL_PATTERN" THEN EmailEnd(t, i) ELSE UrlEnd(t, i)

\* The leftmost position from i on where the pattern matches; 0 when none.
RECURSIVE first_match(_, _, _)
first_match(pattern, t, i) ==
    IF i > Len(t) THEN 0
    ELSE IF MatchEnd(pattern, t, i) > 0 THEN i
    ELSE first_match(pattern, t, i + 1)

\* Regex::find_iter: the leftmost match from position `from` on, then the
\* matches after its end; successive matches do not overlap.
RECURSIVE find_iter(_, _, _)
MatchesFrom(pattern, t, i, e) == <<SubSeq(t, i, e)>> \o find_iter(pattern, t, e + 1)
MatchesAt(pattern, t, i) == IF i = 0 THEN <<>> ELSE MatchesFrom(pattern, t, i, MatchEnd(pattern, t, i))
find_iter(pattern, t, from) == MatchesAt(pattern, t, first_match(pattern, t, from))

\* str::to_lowercase on a match (every character of a match is ASCII).
to_lowercase(m) == [k \in 1..Len(m) |-> IF m[k] \in 65..90 THEN m[k] + 32 ELSE m[k]]

\* .map(|m| m.as_str().to_lowercase()).collect()
lowercased(matches) == [k \in 1..Len(matches) |-> to_lowercase(matches[k])]

\* .map(|m| m.as_str().to_string()).collect()
as_strings(matches) == [k \in 1..Len(matches) |-> matches[k]]

extract_emails_fast(text) == lowercased(find_iter("EMAIL_PATTERN", text, 1))

extract_urls_fast(text) == as_strings(find_iter("URL_PATTERN", text, 1))

\* EmailMetadata { email_count: emails.len(), url_count: urls.len(), emails, urls }
EmailMetadata(emails, urls) ==
    [emails |-> emails, urls |-> urls, email_count |-> Len(emails), url_count |-> Len(urls)]

\* The closure of process_metadata_batch (lines 272-291) on one text.
metadata_of(text) ==
    EmailMetadata(lowercased(find_iter("EMAIL_PATTERN", text, 1)),
                  as_strings(find_iter("URL_PATTERN", text, 1)))

\* into_iter().map(closure).collect(): one result per text, in input order.
process_Reversed(texts) == Ok([k \in 1..Len(texts) |-> metadata_of(texts[Len(texts) + 1 - k])])
process_metadata_batch(texts) == Ok([k \in 1..Len(texts) |-> metadata_of(texts[k])])

\* ---- inputs: texts put together from a few pieces ----
MaxPieces == 2
MaxBatch == 2
\* "X@y.IO http://u ", "https://V."
Pieces == {<<88, 64, 121, 46, 73, 79, 32, 104, 116, 116, 112, 58, 47, 47, 117, 32>>,
           <<104, 116, 116, 112, 115, 58, 47, 47, 86, 46>>}

RECURSIVE Flatten(_)
Flatten(q) == IF q = <<>> THEN <<>> ELSE Head(q) \o Flatten(Tail(q))

Texts == {Flatten(q) : q \in SeqsUpTo(Pieces, MaxPieces)}

ProcessBatch ==
    /\ batPc = "call"
    /\ results' = process_metadata_batch(email_texts)
    /\ batPc' = "done"
    /\ UNCHANGED <<email_texts, sanVars, detVars, decVars, cntVars, hdrVars>>

BatNext == ProcessBatch

(***************************************************************************)
(* Line scanner                                                            *)
(***************************************************************************)

\* The rayon pool's threads.
NumWorkers == 2
Workers == 1..NumWorkers

\* std::str::from_utf8(&mmap).unwrap_or("")
text_LossyOnError(bytes) == from_utf8_lossy(bytes)
text_of_mmap(bytes) == IF from_utf8_is_ok(bytes) THEN utf8_decode(bytes).text ELSE <<>>

\* str::lines: the pieces that end with '\n' (or with the end of the text),
\* each without its "\n" and without a '\r' before that "\n".
RECURSIVE str_lines(_)
str_lines(t) ==
    IF t = <<>> THEN <<>>
    ELSE LET nl   == RunLen(t, 1, "not_newline") \* characters before the first '\n'
             line == SubSeq(t, 1, nl)
             rest == SubSeq(t, nl + 2, Len(t))
         IN IF nl = Len(t) THEN <<line>>
            ELSE IF nl >= 1 /\ line[nl] = 13 THEN <<SubSeq(line, 1, nl - 1)>> \o str_lines(rest)
            ELSE <<line>> \o str_lines(rest)

\* "From "
FROM_MARKER == <<70, 114, 111, 109, 32>>

\* The filter's predicate: line.starts_with("From ")
is_from_line(line) == starts_with(line, FROM_MARKER)

\* The reduction of the workers' partial counts.
RECURSIVE SumTo(_, _)
SumTo(f, n) == IF n = 0 THEN 0 ELSE f[n] + SumTo(f, n - 1)
reduce_sum(t) == SumTo(t, NumWorkers)

\* ---- inputs: files put together from a few chunks ----
MaxChunks == 3
\* "From ", "\n", "\r", "x", a byte that is never valid UTF-8
Chunks == {FROM_MARKER, <<10>>, <<13>>, <<120>>, <<255>>}
Files == {Flatten(q) : q \in SeqsUpTo(Chunks, MaxChunks)}

otherVars == <<sanVars, detVars, decVars, batVars, hdrVars>>

\* Lines 44-53: File::open or Mmap::map fails: the call returns the error.
OpenFails ==
    /\ cntPc = "call" /\ fileState # "ok"
    /\ count' = [kind |-> "IoError", val |-> fileState]
    /\ cntPc' = "done"
    /\ UNCHANGED <<fileState, mmap, lineIter, cursor, wpc, held, tally, otherVars>>

\* Lines 44-61: the file is mapped, read as text and its line iterator is
\* handed to the pool.
OpenAndBridge ==
    /\ cntPc = "call" /\ fileState = "ok"
    /\ lineIter' = str_lines(text_of_mmap(mmap))
    /\ cntPc' = "scan"
    /\ UNCHANGED <<fileState, mmap, cursor, wpc, held, tally, count, otherVars>>

\* par_bridge: a worker takes the next line from the shared iterator (under
\* its lock) ...
TakeLine(w) ==
    /\ cntPc = "scan" /\ wpc[w] = "ready" /\ cursor < Len(lineIter)
    /\ held' = [held EXCEPT ![w] = lineIter[cursor + 1]]
    /\ cursor' = cursor + 1
    /\ wpc' = [wpc EXCEPT ![w] = "holding"]
    /\ UNCHANGED <<cntPc, fileState, mmap, lineIter, tally, count, otherVars>>

\* ... or finds the iterator exhausted and finishes.
FindExhausted(w) ==
    /\ cntPc = "scan" /\ wpc[w] = "ready" /\ cursor = Len(lineIter)
    /\ wpc' = [wpc EXCEPT ![w] = "finished"]
    /\ UNCHANGED <<cntPc, fileState, mmap, lineIter, cursor, held, tally, count, otherVars>>

\* Lines 62-63: filter and count the line the worker holds.
FilterCount(w) ==
    /\ cntPc = "scan" /\ wpc[w] = "holding"
    /\ tally' = [tally EXCEPT ![w] = @ + (IF is_from_line(held[w]) THEN 1 ELSE 0)]
    /\ held' = [held EXCEPT ![w] = <<>>]
    /\ wpc' = [wpc EXCEPT ![w] = "ready"]
    /\ UNCHANGED <<cntPc, fileState, mmap, lineIter, cursor, count, otherVars>>

\* Lines 63-65: all workers finished: their counts are added up and returned.
ReduceCount ==
    /\ cntPc = "scan" /\ \A w \in Workers : wpc[w] = "finished"
    /\ count' = Ok(reduce_sum(tally))
    /\ cntPc' = "done"
    /\ UNCHANGED <<fileState, mmap, lineIter, cursor, wpc, held, tally, otherVars>>

CntNext ==
    \/ OpenFails
    \/ OpenAndBridge
    \/ \E w \in Workers : TakeLine(w)
    \/ \E w \in Workers : FindExhausted(w)
    \/ \E w \in Workers : FilterCount(w)
    \/ ReduceCount

(***************************************************************************)
(* Header parser                                                           *)
(***************************************************************************)

\* The groups 1 and 2 that ^([A-Za-z0-9-]+):\s*(.+)$ captures in a line whose
\* name is n characters long and whose colon is followed by ws whitespace
\* characters: the greedy \s* takes them all when something is left for
\* (.+), gives the last one back when nothing is, and there is no match when
\* nothing follows the colon.  (A line of str::lines holds no '\n', so '.'
\* matches every character of it and $ is the end of the line.)
HeaderGroups(line, n, ws) ==
    IF n + 2 + ws <= Len(line)
    THEN <<SubSeq(line, 1, n), SubSeq(line, n + 2 + ws, Len(line))>>
    ELSE IF ws >= 1
    THEN <<SubSeq(line, 1, n), SubSeq(line, Len(line), Len(line))>>
    ELSE <<>>

\* HEADER_PATTERN.captures(line): the captured groups, <<>> for no match.
\* The name is the longest run of [A-Za-z0-9-] at the start of the line (the
\* colon is not in the class) and must be followed by ':'.
HEADER_PATTERN(line) ==
    IF RunLen(line, 1, "header_name") = 0
       \/ RunLen(line, 1, "header_name") + 1 > Len(line)
       \/ line[RunLen(line, 1, "header_name") + 1] # 58
    THEN <<>>
    ELSE HeaderGroups(line, RunLen(line, 1, "header_name"),
                      RunLen(line, RunLen(line, 1, "header_name") + 2, "whitespace"))

\* line.starts_with(|c: char| c.is_whitespace())
starts_with_whitespace(line) == line # <<>> /\ is_whitespace(line[1])

\* What the two push calls append for the captures of a line, with the
\* value left as captured.
pushed_NoTrim(captures) == <<to_lowercase(captures[1]), captures[2]>>

\* What the two push calls append for the captures of a line.
pushed(captures) == <<to_lowercase(captures[1]), trim(captures[2])>>

\* ---- inputs: header texts put together from a few chunks ----
MaxHdrChunks == 4
\* "Ab-1:", "X:y\n", " ", "\n", "\r", "_"
HdrChunks == {<<65, 98, 45, 49, 58>>, <<88, 58, 121, 10>>, <<32>>, <<10>>, <<13>>, <<95>>}
HeaderTexts == {Flatten(q) : q \in SeqsUpTo(HdrChunks, MaxHdrChunks)}

hdrOthers == <<sanVars, detVars, decVars, batVars, cntVars>>

\* let mut result = Vec::new(); for line in text.lines()
HdrCall ==
    /\ hdrPc = "call"
    /\ hdrLines' = str_lines(hdrText)
    /\ hdrPos' = 0
    /\ hdrResult' = <<>>
    /\ hdrPc' = "loop"
    /\ UNCHANGED <<hdrText, headers, hdrOthers>>

\* The iterator is exhausted: the loop ends and Ok(result) is returned.
HdrExhausted ==
    /\ hdrPc = "loop"
    /\ hdrPos = Len(hdrLines)
    /\ headers' = Ok(hdrResult)
    /\ hdrPc' = "done"
    /\ UNCHANGED <<hdrText, hdrLines, hdrPos, hdrResult, hdrOthers>>

\* if line.is_empty() { break; } and then Ok(result)
HdrBreak ==
    /\ hdrPc = "loop"
    /\ hdrPos < Len(hdrLines)
    /\ hdrLines[hdrPos + 1] = <<>>
    /\ hdrPos' = hdrPos + 1
    /\ headers' = Ok(hdrResult)
    /\ hdrPc' = "done"
    /\ UNCHANGED <<hdrText, hdrLines, hdrResult, hdrOthers>>

\* if line.starts_with(whitespace) { continue; }
HdrContinuation ==
    /\ hdrPc = "loop"
    /\ hdrPos < Len(hdrLines)
    /\ hdrLines[hdrPos + 1] # <<>>
    /\ starts_with_whitespace(hdrLines[hdrPos + 1])
    /\ hdrPos' = hdrPos + 1
    /\ UNCHANGED <<hdrPc, hdrText, hdrLines, hdrResult, headers, hdrOthers>>

\* if let Some(captures) = HEADER_PATTERN.captures(line) { push; push }
HdrPush ==
    /\ hdrPc = "loop"
    /\ hdrPos < Len(hdrLines)
    /\ hdrLines[hdrPos + 1] # <<>>
    /\ ~starts_with_whitespace(hdrLines[hdrPos + 1])
    /\ HEADER_PATTERN(hdrLines[hdrPos + 1]) # <<>>
    /\ hdrResult' = hdrResult \o pushed(HEADER_PATTERN(hdrLines[hdrPos + 1]))
    /\ hdrPos' = hdrPos + 1
    /\ UNCHANGED <<hdrPc, hdrText, hdrLines, headers, hdrOthers>>

\* captures is None: the body of the if let is not run.
HdrSkip ==
    /\ hdrPc = "loop"
    /\ hdrPos < Len(hdrLines)
    /\ hdrLines[hdrPos + 1] # <<>>
    /\ ~starts_with_whitespace(hdrLines[hdrPos + 1])
    /\ HEADER_PATTERN(hdrLines[hdrPos + 1]) = <<>>
    /\ hdrPos' = hdrPos + 1
    /\ UNCHANGED <<hdrPc, hdrText, hdrLines, hdrResult, headers, hdrOthers>>

HdrNext ==
    \/ HdrCall
    \/ HdrExhausted
    \/ HdrBreak
    \/ HdrContinuation
    \/ HdrPush
    \/ HdrSkip

(***************************************************************************)
(* Specifications                                                          *)
(***************************************************************************)

\* A call of sanitize_filename_fast on any of the file names; the other functions are not called.
SanInit ==
    /\ sanPc = "call"
    /\ filename \in Filenames
    /\ sanitized = None
    /\ resanitized = None
    /\ detPc = "idle"
    /\ detData = <<>>
    /\ detected = None
    /\ decPc = "idle"
    /\ decData = <<>>
    /\ decHint = NoHint
    /\ decoded = None
    /\ batPc = "idle"
    /\ email_texts = <<>>
    /\ results = None
    /\ cntPc = "idle"
    /\ fileState = "ok"
    /\ mmap = <<>>
    /\ lineIter = <<>>
    /\ cursor = 0
    /\ wpc = [w \in Workers |-> "ready"]
    /\ held = [w \in Workers |-> <<>>]
    /\ tally = [w \in Workers |-> 0]
    /\ count = None
    /\ hdrPc = "idle"
    /\ hdrText = <<>>
    /\ hdrLines = <<>>
    /\ hdrPos = 0
    /\ hdrResult = <<>>
    /\ headers = None

SpecSanitize == SanInit /\ [][SanNext]_vars

\* ---- claims about the sanitizer ----

\* The forbidden characters as the specification lists them:
\* < > : " / \ | ? * and the controls 0x00-0x1F.
Forbidden == {60, 62, 58, 34, 47, 92, 124, 63, 42} \cup (0..31)

\* C1: sanitize_filename is idempotent: applying it to its own output returns
\* that output unchanged.
C1_Idempotent == sanPc = "again" => resanitized = sanitized

\* C2: the output has no leading or trailing whitespace character and no
\* leading or trailing dot.
C2_NoEdgeWhitespaceOrDot ==
    (sanPc # "call" /\ sanitized.kind = "ok" /\ sanitized.val # <<>>) =>
        LET v == sanitized.val
        IN /\ ~is_whitespace(v[1]) /\ v[1] # 46
           /\ ~is_whitespace(v[Len(v)]) /\ v[Len(v)] # 46

\* C3: a returned name contains no forbidden character, is at most 255 bytes
\* long, and is a contiguous piece of the input in which every forbidden
\* character stands replaced by exactly one underscore.
C3_NoForbiddenOneForOneCapped ==
    (sanPc # "call" /\ sanitized.kind = "ok") =>
        LET v == sanitized.val
        IN /\ \A i \in 1..Len(v) : v[i] \notin Forbidden
           /\ byte_len(v) <= 255
           /\ \E k \in 0..(Len(filename) - Len(v)) :
                 \A i \in 1..Len(v) :
                     v[i] = IF filename[k + i] \in Forbidden THEN 95 ELSE filename[k + i]

\* C3 witness: a name with a forbidden character whose cleaned form was cut to
\* exactly 255 bytes.
C3_Witness ==
    /\ sanPc = "done" /\ sanitized.kind = "ok"
    /\ \E i \in 1..Len(filename) : filename[i] \in Forbidden
    /\ \E i \in 1..Len(sanitized.val) : sanitized.val[i] = 95
    /\ byte_len(sanitized.val) = 255
    /\ byte_len(filename) > 255

\* C4: sanitize_filename never fails: every call returns a string.
C4_NeverFails == sanPc # "call" => sanitized.kind = "ok"

\* A call of detect_encoding_fast on any of the buffers; the other functions are not called.
DetInit ==
    /\ sanPc = "idle"
    /\ filename = <<>>
    /\ sanitized = None
    /\ resanitized = None
    /\ detPc = "call"
    /\ detData \in SeqsUpTo(DetectBytes, MaxDetect)
    /\ detected = None
    /\ decPc = "idle"
    /\ decData = <<>>
    /\ decHint = NoHint
    /\ decoded = None
    /\ batPc = "idle"
    /\ email_texts = <<>>
    /\ results = None
    /\ cntPc = "idle"
    /\ fileState = "ok"
    /\ mmap = <<>>
    /\ lineIter = <<>>
    /\ cursor = 0
    /\ wpc = [w \in Workers |-> "ready"]
    /\ held = [w \in Workers |-> <<>>]
    /\ tally = [w \in Workers |-> 0]
    /\ count = None
    /\ hdrPc = "idle"
    /\ hdrText = <<>>
    /\ hdrLines = <<>>
    /\ hdrPos = 0
    /\ hdrResult = <<>>
    /\ headers = None

SpecDetect == DetInit /\ [][DetNext]_vars

\* ---- claims about the encoding detector ----

AllBelow128(b) == \A i \in 1..Len(b) : b[i] < 128

\* C6 as stated: every buffer whose bytes are all below 0x80, the empty one
\* included, is reported as "ASCII".
C6_AllAsciiIsAscii ==
    (detPc = "done" /\ AllBelow128(detData)) => detected.val.name = "ASCII"

\* C6: every non-empty buffer whose bytes are all below 0x80 is reported as
\* "ASCII".
C6_NonEmptyAsciiIsAscii ==
    (detPc = "done" /\ detData # <<>> /\ AllBelow128(detData)) =>
        detected = Ok([name |-> "ASCII", tier |-> "ascii"])

\* C6 witness: a buffer of two or more ASCII bytes, reported as "ASCII".
C6_Witness ==
    /\ detPc = "done" /\ Len(detData) >= 2 /\ AllBelow128(detData)
    /\ detected.val.name = "ASCII"

\* C8: the tiers apply in order, first match wins, and a name is always
\* returned: empty -> "UTF-8"; else all bytes below 0x80 -> "ASCII"; else valid
\* UTF-8 -> "UTF-8"; the detector's name is returned exactly for a non-empty
\* buffer that is not valid UTF-8.
C8_TiersInOrder ==
    detPc = "done" =>
        /\ detected.kind = "ok"
        /\ detData = <<>> => detected.val = [name |-> "UTF-8", tier |-> "empty"]
        /\ (detData # <<>> /\ AllBelow128(detData)) =>
               detected.val = [name |-> "ASCII", tier |-> "ascii"]
        /\ (detData # <<>> /\ ~AllBelow128(detData) /\ as_bytes(from_utf8_lossy(detData)) = detData) =>
               detected.val = [name |-> "UTF-8", tier |-> "utf8"]
        /\ detected.val.tier = "detector" =>
               /\ detData # <<>>
               /\ as_bytes(from_utf8_lossy(detData)) # detData
               /\ detected.val.name \in DetectorNames
        /\ detected.val.tier \in {"empty", "ascii", "utf8", "detector"}

\* C8 witness: the last tier, reached after the three earlier ones failed.
C8_Witness ==
    /\ detPc = "done" /\ detected.val.tier = "detector"
    /\ detData # <<>> /\ ~AllBelow128(detData) /\ ~from_utf8_is_ok(detData)

\* A call of decode_fast on any of the buffers, with or without a hint; the other functions are not called.
DecInit ==
    /\ sanPc = "idle"
    /\ filename = <<>>
    /\ sanitized = None
    /\ resanitized = None
    /\ detPc = "idle"
    /\ detData = <<>>
    /\ detected = None
    /\ decPc = "call"
    /\ decData \in {m \o b : m \in Marks, b \in SeqsUpTo(BodyBytes, MaxBody)}
    /\ decHint \in Hints
    /\ decoded = None
    /\ batPc = "idle"
    /\ email_texts = <<>>
    /\ results = None
    /\ cntPc = "idle"
    /\ fileState = "ok"
    /\ mmap = <<>>
    /\ lineIter = <<>>
    /\ cursor = 0
    /\ wpc = [w \in Workers |-> "ready"]
    /\ held = [w \in Workers |-> <<>>]
    /\ tally = [w \in Workers |-> 0]
    /\ count = None
    /\ hdrPc = "idle"
    /\ hdrText = <<>>
    /\ hdrLines = <<>>
    /\ hdrPos = 0
    /\ hdrResult = <<>>
    /\ headers = None

SpecDecode == DecInit /\ [][DecNext]_vars

\* ---- claims about the decoder ----

\* The encoding a hint resolves to.
Resolved(hint) == IF for_label(hint) = "none" THEN "UTF_8" ELSE for_label(hint)

\* The decode of b by enc when a leading byte-order mark is honoured: the mark
\* names the encoding and is dropped.
MarkAware(enc, b) ==
    IF starts_with(b, <<239, 187, 191>>) THEN utf8_decode(SubSeq(b, 4, Len(b)))
    ELSE IF starts_with(b, <<255, 254>>) THEN utf16_decode(SubSeq(b, 3, Len(b)), TRUE)
    ELSE IF starts_with(b, <<254, 255>>) THEN utf16_decode(SubSeq(b, 3, Len(b)), FALSE)
    ELSE decode_without_bom_handling(enc, b)

\* C9 as stated: with a hint, the buffer is decoded with the encoding the hint
\* resolves to; on errors the lossy UTF-8 decode of the bytes is returned.
C9_DecodesWithHinted ==
    (decPc = "done" /\ decHint # NoHint /\ decData # <<>>) =>
        LET d == decode_without_bom_handling(Resolved(decHint), decData)
        IN decoded = Ok(IF d.had_errors THEN from_utf8_lossy(decData) ELSE d.text)

\* C9: with a hint, the buffer is decoded with the encoding the hint resolves
\* to (UTF-8 for an unknown label) unless it starts with a byte-order mark,
\* which selects the encoding and is dropped; whenever that decode reports
\* errors the result is the lossy UTF-8 decode of the original bytes, never
\* the lossy text of that decode; the call always returns.
C9_DecodesWithMarkOrHinted ==
    (decPc = "done" /\ decHint # NoHint /\ decData # <<>>) =>
        LET d == MarkAware(Resolved(decHint), decData)
        IN /\ decoded.kind = "ok"
           /\ d.had_errors => decoded.val = from_utf8_lossy(decData)
           /\ ~d.had_errors => decoded.val = d.text

\* C9 witness: the hinted decode had errors and its lossy text differs from
\* what was returned.
C9_Witness ==
    /\ decPc = "done" /\ decHint # NoHint /\ decData # <<>>
    /\ MarkAware(Resolved(decHint), decData).had_errors
    /\ MarkAware(Resolved(decHint), decData).text # decoded.val
    /\ decoded.val = from_utf8_lossy(decData)

\* C10 as stated: without a hint: "" for an empty buffer; the bytes unchanged
\* when valid UTF-8; else their Windows-1252 decode when it has no invalid
\* sequence; else the lossy UTF-8 decode.
C10_ChainPlainWindows1252 ==
    (decPc = "done" /\ decHint = NoHint) =>
        IF decData = <<>> THEN decoded = Ok(<<>>)
        ELSE IF from_utf8_is_ok(decData) THEN decoded.kind = "ok" /\ as_bytes(decoded.val) = decData
        ELSE IF ~w1252_decode(decData).had_errors THEN decoded = Ok(w1252_decode(decData).text)
        ELSE decoded = Ok(from_utf8_lossy(decData))

\* C10: without a hint: "" for an empty buffer; the bytes unchanged when valid
\* UTF-8; else the Windows-1252 decode, in which a leading byte-order mark
\* selects UTF-8 or UTF-16 instead and is dropped, when it reports no invalid
\* sequence; else the lossy UTF-8 decode.
C10_ChainMarkAware ==
    (decPc = "done" /\ decHint = NoHint) =>
        IF decData = <<>> THEN decoded = Ok(<<>>)
        ELSE IF from_utf8_is_ok(decData) THEN decoded.kind = "ok" /\ as_bytes(decoded.val) = decData
        ELSE IF ~MarkAware("WINDOWS_1252", decData).had_errors
             THEN decoded = Ok(MarkAware("WINDOWS_1252", decData).text)
        ELSE decoded = Ok(from_utf8_lossy(decData))

\* C10 witness: the last tier: not valid UTF-8, the second decode had errors,
\* the lossy text was returned.
C10_Witness ==
    /\ decPc = "done" /\ decHint = NoHint /\ decData # <<>>
    /\ ~from_utf8_is_ok(decData)
    /\ MarkAware("WINDOWS_1252", decData).had_errors
    /\ decoded = Ok(from_utf8_lossy(decData))

\* A call of process_metadata_batch on any of the batches; the other functions are not called.
BatInit ==
    /\ sanPc = "idle"
    /\ filename = <<>>
    /\ sanitized = None
    /\ resanitized = None
    /\ detPc = "idle"
    /\ detData = <<>>
    /\ detected = None
    /\ decPc = "idle"
    /\ decData = <<>>
    /\ decHint = NoHint
    /\ decoded = None
    /\ batPc = "call"
    /\ email_texts \in SeqsUpTo(Texts, MaxBatch)
    /\ results = None
    /\ cntPc = "idle"
    /\ fileState = "ok"
    /\ mmap = <<>>
    /\ lineIter = <<>>
    /\ cursor = 0
    /\ wpc = [w \in Workers |-> "ready"]
    /\ held = [w \in Workers |-> <<>>]
    /\ tally = [w \in Workers |-> 0]
    /\ count = None
    /\ hdrPc = "idle"
    /\ hdrText = <<>>
    /\ hdrLines = <<>>
    /\ hdrPos = 0
    /\ hdrResult = <<>>
    /\ headers = None

SpecBatch == BatInit /\ [][BatNext]_vars

\* ---- claims about the batch ----

\* C5: the batch returns one element per text, in input order; element i holds
\* extract_emails(t_i) and extract_urls(t_i), and its counts are the lengths
\* of those two sequences.
C5_BatchIsPositional ==
    batPc = "done" =>
        /\ results.kind = "ok"
        /\ Len(results.val) = Len(email_texts)
        /\ \A i \in 1..Len(email_texts) :
              LET emails == extract_emails_fast(email_texts[i])
                  urls   == extract_urls_fast(email_texts[i])
              IN results.val[i] = [emails |-> emails, urls |-> urls,
                                   email_count |-> Len(emails), url_count |-> Len(urls)]

\* C5 witness: two different texts, both with matches, the first with an
\* upper-case address, giving two different elements.
C5_Witness ==
    /\ batPc = "done" /\ Len(email_texts) = 2
    /\ results.val[1] # results.val[2]
    /\ results.val[1].email_count >= 1 /\ results.val[2].url_count >= 1
    /\ results.val[1].emails # find_iter("EMAIL_PATTERN", email_texts[1], 1)

\* A call of count_messages_fast on any of the files; the other functions are not called.
CntInit ==
    /\ sanPc = "idle"
    /\ filename = <<>>
    /\ sanitized = None
    /\ resanitized = None
    /\ detPc = "idle"
    /\ detData = <<>>
    /\ detected = None
    /\ decPc = "idle"
    /\ decData = <<>>
    /\ decHint = NoHint
    /\ decoded = None
    /\ batPc = "idle"
    /\ email_texts = <<>>
    /\ results = None
    /\ cntPc = "call"
    /\ fileState \in {"ok", "unopenable", "unmappable"}
    /\ mmap \in Files
    /\ lineIter = <<>>
    /\ cursor = 0
    /\ wpc = [w \in Workers |-> "ready"]
    /\ held = [w \in Workers |-> <<>>]
    /\ tally = [w \in Workers |-> 0]
    /\ count = None
    /\ hdrPc = "idle"
    /\ hdrText = <<>>
    /\ hdrLines = <<>>
    /\ hdrPos = 0
    /\ hdrResult = <<>>
    /\ headers = None

SpecCount == CntInit /\ [][CntNext]_vars

\* ---- claims about the line scanner ----

\* The positions of the file where a line starts with "From ": the start of
\* the text or just after a '\n'.
FromLineStarts(t) ==
    {p \in 1..Len(t) : (p = 1 \/ t[p - 1] = 10) /\ starts_with(SubSeq(t, p, Len(t)), FROM_MARKER)}

\* C7: for a file that opens and maps, the count returned is the number of
\* lines starting with "From " when the content is valid UTF-8 and 0 when it
\* is not, whatever the interleaving of the workers.
C7_CountIsFromLines ==
    (cntPc = "done" /\ fileState = "ok") =>
        count = Ok(IF as_bytes(from_utf8_lossy(mmap)) = mmap
                   THEN Cardinality(FromLineStarts(from_utf8_lossy(mmap)))
                   ELSE 0)

\* C7 witness: two "From " lines, counted by two different workers.
C7_Witness ==
    /\ cntPc = "done" /\ fileState = "ok"
    /\ count = Ok(2)
    /\ \E v, w \in Workers : v # w /\ tally[v] = 1 /\ tally[w] = 1

\* A call of parse_headers_fast on any of the header texts; the other functions are not called.
HdrInit ==
    /\ sanPc = "idle"
    /\ filename = <<>>
    /\ sanitized = None
    /\ resanitized = None
    /\ detPc = "idle"
    /\ detData = <<>>
    /\ detected = None
    /\ decPc = "idle"
    /\ decData = <<>>
    /\ decHint = NoHint
    /\ decoded = None
    /\ batPc = "idle"
    /\ email_texts = <<>>
    /\ results = None
    /\ cntPc = "idle"
    /\ fileState = "ok"
    /\ mmap = <<>>
    /\ lineIter = <<>>
    /\ cursor = 0
    /\ wpc = [w \in Workers |-> "ready"]
    /\ held = [w \in Workers |-> <<>>]
    /\ tally = [w \in Workers |-> 0]
    /\ count = None
    /\ hdrPc = "call"
    /\ hdrText \in HeaderTexts
    /\ hdrLines = <<>>
    /\ hdrPos = 0
    /\ hdrResult = <<>>
    /\ headers = None

SpecHeaders == HdrInit /\ [][HdrNext]_vars

\* ---- claims about the header parser ----

\* The positions of a text where a line starts: the start of a non-empty
\* text and just after every '\n' that is not the last character.
LineStarts(t) == {p \in 1..Len(t) : p = 1 \/ t[p - 1] = 10}

\* The line that starts at position p: the characters up to the next '\n',
\* without a '\r' that stands just before that '\n'.
LineFrom(t, p) ==
    LET ends == {q \in p..Len(t) : t[q] = 10}
        e    == IF ends = {} THEN Len(t) + 1 ELSE CHOOSE q \in ends : \A r \in ends : q <= r
    IN IF e <= Len(t) /\ e > p /\ t[e - 1] = 13
       THEN SubSeq(t, p, e - 2)
       ELSE SubSeq(t, p, e - 1)

\* The lines of a text in order.
LinesOf(t) ==
    [k \in 1..Cardinality(LineStarts(t)) |->
        LineFrom(t, CHOOSE p \in LineStarts(t) :
                        Cardinality({r \in LineStarts(t) : r < p}) = k - 1)]

\* The number of lines before the first empty line (all of them when there
\* is none).
HeaderLines(lines) ==
    Cardinality({k \in 1..Len(lines) : \A j \in 1..k : lines[j] # <<>>})

\* line has the form name: value with the colon at position p: a non-empty
\* name of letters, digits and hyphens, a colon, and something after it.
Conforms(line, p) ==
    /\ p \in 2..(Len(line) - 1)
    /\ line[p] = 58
    /\ \A k \in 1..(p - 1) : IsHeaderNameChar(line[k])

\* s without its leading and trailing whitespace.
Stripped(s) ==
    LET keep == {k \in 1..Len(s) : ~is_whitespace(s[k])}
    IN IF keep = {} THEN <<>>
       ELSE SubSeq(s, CHOOSE k \in keep : \A j \in keep : k <= j,
                      CHOOSE k \in keep : \A j \in keep : k >= j)

\* What a line contributes to the output: nothing when it begins with
\* whitespace or does not conform, else its lowercased name and its value
\* without surrounding whitespace.
Contribution(line) ==
    IF is_whitespace(line[1]) \/ ~\E p \in 1..Len(line) : Conforms(line, p)
    THEN <<>>
    ELSE LET p == CHOOSE q \in 1..Len(line) : Conforms(line, q)
         IN <<[k \in 1..(p - 1) |-> IF line[k] \in 65..90 THEN line[k] + 32 ELSE line[k]],
              Stripped(SubSeq(line, p + 1, Len(line)))>>

\* The contributions of the lines before the first empty line, in order.
ExpectedHeaders(t) ==
    Flatten([k \in 1..HeaderLines(LinesOf(t)) |-> Contribution(LinesOf(t)[k])])

\* C11: parse_headers_fast takes the lines in order and never takes one
\* after the first empty line; at every step the output has even length
\* with a lowercased name at each even (0-based) position; and what it
\* returns is, for the lines before the first empty line in order, nothing
\* for a line that begins with whitespace or does not conform, and the
\* lowercased name then the whitespace-trimmed value for a line of the form
\* name: value.
C11_HeadersAreNameValuePairs ==
    /\ hdrPc \in {"loop", "done"} =>
        /\ hdrLines = LinesOf(hdrText)
        /\ hdrPos <= HeaderLines(hdrLines) + 1
        /\ hdrPos <= Len(hdrLines)
        /\ Len(hdrResult) % 2 = 0
        /\ \A k \in 1..Len(hdrResult) :
              (k % 2 = 1) =>
                  /\ hdrResult[k] # <<>>
                  /\ \A j \in 1..Len(hdrResult[k]) :
                        IsHeaderNameChar(hdrResult[k][j]) /\ hdrResult[k][j] \notin 65..90
    /\ hdrPc = "done" => headers = Ok(ExpectedHeaders(hdrText))

\* C11 witness: "Ab-1:X:y", an empty line, then "X:y": the first line gives
\* the pair "ab-1", "X:y" and the conforming line after the empty one gives
\* nothing.
C11_Witness ==
    /\ hdrPc = "done"
    /\ hdrText = <<65, 98, 45, 49, 58, 88, 58, 121, 10, 10, 88, 58, 121, 10>>
    /\ hdrPos = 2
    /\ headers = Ok(<<(<<97, 98, 45, 49>>), (<<88, 58, 121>>)>>)

====
